---- MODULE Spec2Model ----
(***************************************************************************)
(* A model of the autodeskforge provider of goth                          *)
(* (providers/autodeskforge/autodeskforge.go).                             *)
(*                                                                         *)
(* Strings that the code builds by formatting or concatenation are         *)
(* sequences of string tokens (the pieces the code puts together); plain   *)
(* values (tokens, names, keys) are strings; ExpiresAt is a natural        *)
(* number with 0 the zero time.  An error is a sequence of tokens, the    *)
(* empty sequence being Go's nil error.                                    *)
(***************************************************************************)
EXTENDS Naturals, Sequences, FiniteSets, TLC

(***************************************************************************)
(* Bounds and input sets                                                   *)
(***************************************************************************)
\* The number of HTTP requests a behaviour may issue.
MaxRequests == 2
\* The number of goroutines that share the provider.
NumThreads == 2

ClientKeys == {"key1", "key2"}
Secrets == {"secret1"}
CallbackURLs == {"/foo"}
ScopeLists == {<<>>, <<"data:write", "bucket:read">>}
ProviderNames == {"autodeskforge", "forge2", ""}
States == {"test_state", ""}
RefreshTokens == {"", "rt1"}
StatusCodes == {200, 404, 500}
HTTPClients == {"nil", "custom"}

\* The constants of the package.
baseAuthURL == "https://developer.api.autodesk.com/authentication/v1/authorize"
tokenURL == "https://developer.api.autodesk.com/authentication/v1/gettoken"
endpointUser == "https://developer.api.autodesk.com/userprofile/v1/users/@me"
StatusOK == 200

NilErr == <<>>
\* Go's nil pointer.
Nil == [nil |-> TRUE]
NoRequests == <<>>

(***************************************************************************)
(* JSON documents: a text is malformed, or holds an object, a function     *)
(* from the keys present in it to their values.                            *)
(***************************************************************************)
Malformed == [wellFormed |-> FALSE]
Object(doc) == [wellFormed |-> TRUE, doc |-> doc]

\* The zero value is what encoding/json leaves in a field whose key is absent.
JSONString(doc, key) == IF key \in DOMAIN doc THEN doc[key] ELSE ""
JSONNumber(doc, key) == IF key \in DOMAIN doc THEN doc[key] ELSE 0
JSONSequence(doc, key) == IF key \in DOMAIN doc THEN doc[key] ELSE <<>>

ProfileBodies ==
    { Malformed,
      Object([userId |-> "U1", userName |-> "nick1", firstName |-> "Ada",
              lastName |-> "Lovelace", countryCode |-> "GB",
              emailId |-> "ada@example.com", statusMessage |-> "hello",
              profileImages |-> [sizeX120 |-> "https://img/120.png",
                                 sizeX40 |-> "https://img/40.png"]]),
      Object([userId |-> "U2", firstName |-> "Bob", emailId |-> "bob@example.com",
              profileImages |-> [sizeX40 |-> "https://img/b40.png"]]),
      Object([userName |-> "nick3", lastName |-> "Hopper", countryCode |-> "US"]) }

SessionTexts ==
    { Malformed,
      Object([AuthURL |-> <<baseAuthURL>>, AccessToken |-> "1234567890"]),
      Object([AuthURL |-> <<baseAuthURL>>, AccessToken |-> "at2",
              RefreshToken |-> "rt2", ExpiresAt |-> 7]),
      Object([RefreshToken |-> "rt3"]) }

\* What c.Do(req) and ioutil.ReadAll can give: an error without or with a
\* response (the latter when CheckRedirect fails), or a response whose body
\* can or cannot be read.
HTTPOutcomes ==
    [kind : {"error"}, response : BOOLEAN]
    \cup [kind : {"response"}, status : StatusCodes, readOK : BOOLEAN,
          body : ProfileBodies]

(***************************************************************************)
(* The program                                                             *)
(***************************************************************************)
\* strings.Contains on token sequences.
Contains(s, sub) ==
    \E i \in 1..(Len(s) + 1) :
        /\ i + Len(sub) - 1 <= Len(s)
        /\ SubSeq(s, i, i + Len(sub) - 1) = sub

\* newConfig with the token endpoint pasted where the authorization one belongs.
newConfigTokenBase(provider, scopes) ==
    LET authURL == <<tokenURL, "?response_type=code&client_id=",
                     provider.ClientKey, "&redirect_uri=", provider.CallbackURL,
                     "&scope=data:read">>
    IN  [ClientID |-> provider.ClientKey,
         ClientSecret |-> provider.Secret,
         RedirectURL |-> provider.CallbackURL,
         Endpoint |-> [AuthURL |-> authURL, TokenURL |-> tokenURL],
         Scopes |-> scopes]

newConfig(provider, scopes) ==
    LET authURL == <<baseAuthURL, "?response_type=code&client_id=",
                     provider.ClientKey, "&redirect_uri=", provider.CallbackURL,
                     "&scope=data:read">>
    IN  [ClientID |-> provider.ClientKey,
         ClientSecret |-> provider.Secret,
         RedirectURL |-> provider.CallbackURL,
         Endpoint |-> [AuthURL |-> authURL, TokenURL |-> tokenURL],
         Scopes |-> scopes]

\* New with the client key stored as the secret too.
NewKeyAsSecret(clientKey, secret, callbackURL, scopes) ==
    LET p0 == [ClientKey |-> clientKey,
               Secret |-> clientKey,
               CallbackURL |-> callbackURL,
               HTTPClient |-> "nil",
               providerName |-> "autodeskforge"]
    IN  [ClientKey |-> p0.ClientKey,
         Secret |-> p0.Secret,
         CallbackURL |-> p0.CallbackURL,
         HTTPClient |-> p0.HTTPClient,
         config |-> newConfig(p0, scopes),
         providerName |-> p0.providerName]

New(clientKey, secret, callbackURL, scopes) ==
    LET p0 == [ClientKey |-> clientKey,
               Secret |-> secret,
               CallbackURL |-> callbackURL,
               HTTPClient |-> "nil",
               providerName |-> "autodeskforge"]
    IN  [ClientKey |-> p0.ClientKey,
         Secret |-> p0.Secret,
         CallbackURL |-> p0.CallbackURL,
         HTTPClient |-> p0.HTTPClient,
         config |-> newConfig(p0, scopes),
         providerName |-> p0.providerName]

\* Name answering the package's name whatever SetName stored.
NameOfPackage(p) == "autodeskforge"

Name(p) == p.providerName

SetName(p, name) == [p EXCEPT !.providerName = name]

\* goth.HTTPClientWithFallBack: the provider's client, or the default one.
Client(p) == IF p.HTTPClient = "nil" THEN "http.DefaultClient" ELSE p.HTTPClient

\* oauth2.Config.AuthCodeURL: the endpoint's AuthURL, then the encoded query
\* (keys in sorted order; redirect_uri, scope and state only when set).  The
\* separator is "&" because the AuthURL newConfig builds already holds a "?".
AuthCodeURL(config, state) ==
    config.Endpoint.AuthURL
    \o <<"&client_id=", config.ClientID>>
    \o (IF config.RedirectURL # "" THEN <<"&redirect_uri=", config.RedirectURL>>
        ELSE <<>>)
    \o <<"&response_type=code">>
    \o (IF Len(config.Scopes) > 0 THEN <<"&scope=">> \o config.Scopes ELSE <<>>)
    \o (IF state # "" THEN <<"&state=", state>> ELSE <<>>)

\* The zero value of Session.
EmptySession == [AuthURL |-> <<>>, AccessToken |-> "", RefreshToken |-> "",
                 ExpiresAt |-> 0]

BeginAuth(p, state) ==
    [session |-> [EmptySession EXCEPT !.AuthURL = AuthCodeURL(p.config, state)],
     err |-> NilErr,
     reqs |-> NoRequests]

\* InitUser without the refresh token.
InitUserNoRefreshToken(p, sess) ==
    [UserID |-> "", NickName |-> "", FirstName |-> "", LastName |-> "",
     Email |-> "", Location |-> "", AvatarURL |-> "",
     AccessToken |-> sess.AccessToken,
     Provider |-> Name(p),
     RefreshToken |-> "",
     ExpiresAt |-> sess.ExpiresAt]

\* The zero value of goth.User, with the four fields FetchUser sets first.
InitUser(p, sess) ==
    [UserID |-> "", NickName |-> "", FirstName |-> "", LastName |-> "",
     Email |-> "", Location |-> "", AvatarURL |-> "",
     AccessToken |-> sess.AccessToken,
     Provider |-> Name(p),
     RefreshToken |-> sess.RefreshToken,
     ExpiresAt |-> sess.ExpiresAt]

\* The access token check left out.
TokenMissingNever(user) == FALSE

TokenMissing(user) == user.AccessToken = ""

MissingTokenError(p) ==
    <<p.providerName, " cannot get user information without accessToken">>

\* http.NewRequest fails on an invalid method only (the URL is a constant
\* that parses).
ValidMethods == {"GET", "POST", "PUT", "DELETE", "HEAD"}
NewRequest(method, url) ==
    [req |-> [Method |-> method, URL |-> url, Authorization |-> <<>>],
     err |-> IF method \in ValidMethods THEN NilErr
             ELSE <<"net/http: invalid method">>]

AddAuthorization(req, sess) ==
    [req EXCEPT !.Authorization = <<"Bearer ", sess.AccessToken>>]

\* Do sending the request a second time when the first attempt fails.
DoWithRetry(c, req, outcome) ==
    [reqs |-> IF outcome.kind = "error"
              THEN <<[client |-> c, req |-> req], [client |-> c, req |-> req]>>
              ELSE <<[client |-> c, req |-> req]>>,
     err |-> IF outcome.kind = "error" THEN <<"transport error">> ELSE NilErr,
     response |-> outcome]

\* c.Do(req): the request goes out once on client c; the outcome is the
\* environment's.
Do(c, req, outcome) ==
    [reqs |-> <<[client |-> c, req |-> req]>>,
     err |-> IF outcome.kind = "error" THEN <<"transport error">> ELSE NilErr,
     response |-> outcome]

\* Only server errors taken as failures.
StatusFailedServerOnly(response) == response.status >= 500

StatusFailed(response) == response.status # StatusOK

StatusError(p, response) ==
    <<p.providerName, " responded with a ", ToString(response.status),
      " trying to fetch user information">>

\* ioutil.ReadAll(response.Body)
ReadAll(response) ==
    [bits |-> response.body,
     err |-> IF response.readOK THEN NilErr ELSE <<"read error">>]

\* json.Decode into the anonymous struct u, by its field tags.
DecodeProfile(bits) ==
    IF ~bits.wellFormed
    THEN [err |-> <<"json decode error">>]
    ELSE [err |-> NilErr,
          u |-> [UserID |-> JSONString(bits.doc, "userId"),
                 UserName |-> JSONString(bits.doc, "userName"),
                 FirstName |-> JSONString(bits.doc, "firstName"),
                 LastName |-> JSONString(bits.doc, "lastName"),
                 CountryCode |-> JSONString(bits.doc, "countryCode"),
                 EmailID |-> JSONString(bits.doc, "emailId"),
                 StatusMessage |-> JSONString(bits.doc, "statusMessage"),
                 ProfileImages |->
                     IF "profileImages" \in DOMAIN bits.doc
                     THEN [SizeX120 |-> JSONString(bits.doc.profileImages,
                                                   "sizeX120")]
                     ELSE [SizeX120 |-> ""]]]

\* MapProfile with the two names crossed.
MapProfileNamesCrossed(user, u) ==
    [user EXCEPT !.NickName = u.UserName,
                 !.AvatarURL = u.ProfileImages.SizeX120,
                 !.FirstName = u.LastName,
                 !.Email = u.EmailID,
                 !.Location = u.CountryCode,
                 !.LastName = u.FirstName,
                 !.UserID = u.UserID]

MapProfile(user, u) ==
    [user EXCEPT !.NickName = u.UserName,
                 !.AvatarURL = u.ProfileImages.SizeX120,
                 !.FirstName = u.FirstName,
                 !.Email = u.EmailID,
                 !.Location = u.CountryCode,
                 !.LastName = u.LastName,
                 !.UserID = u.UserID]

FetchUser(p, sess, outcome) ==
    LET user == InitUser(p, sess)
        c == Client(p)
        nr == NewRequest("GET", endpointUser)
        req == AddAuthorization(nr.req, sess)
        done == Do(c, req, outcome)
        read == ReadAll(done.response)
        dec == DecodeProfile(read.bits)
        ret == IF TokenMissing(user)
               THEN [user |-> user, err |-> MissingTokenError(p),
                     reqs |-> NoRequests]
               ELSE IF nr.err # NilErr
               THEN [user |-> user, err |-> nr.err, reqs |-> NoRequests]
               ELSE IF done.err # NilErr
               THEN [user |-> user, err |-> done.err, reqs |-> done.reqs]
               ELSE IF StatusFailed(done.response)
               THEN [user |-> user, err |-> StatusError(p, done.response),
                     reqs |-> done.reqs]
               ELSE IF read.err # NilErr
               THEN [user |-> user, err |-> read.err, reqs |-> done.reqs]
               ELSE IF dec.err # NilErr
               THEN [user |-> user, err |-> dec.err, reqs |-> done.reqs]
               ELSE [user |-> MapProfile(user, dec.u), err |-> NilErr,
                     reqs |-> done.reqs]
    \* p and sess are pointers: neither is assigned to.
    IN  [user |-> ret.user, err |-> ret.err, reqs |-> ret.reqs,
         p |-> p, sess |-> sess]

RefreshTokenAvailable(p) == TRUE

\* The token source of oauth2: with no refresh token it fails before any
\* request; otherwise it posts to the token endpoint once, and the outcome
\* is the environment's.
RefreshToken(p, refreshToken, ok) ==
    LET c == Client(p)
        post == [client |-> c,
                 req |-> [Method |-> "POST", URL |-> p.config.Endpoint.TokenURL,
                          Authorization |-> <<>>]]
    IN  IF refreshToken = ""
        THEN [token |-> Nil, err |-> <<"oauth2: refresh token is not set">>,
              reqs |-> NoRequests]
        ELSE IF ~ok
        THEN [token |-> Nil, err |-> <<"oauth2: cannot fetch token">>,
              reqs |-> <<post>>]
        ELSE [token |-> [AccessToken |-> "new-at", RefreshToken |-> refreshToken],
              err |-> NilErr, reqs |-> <<post>>]

\* UnmarshalSession reading the keys in lower camel case.
UnmarshalSessionLowerKeys(p, data) ==
    IF ~data.wellFormed
    THEN [session |-> Nil, err |-> <<"json decode error">>]
    ELSE [session |-> [AuthURL |-> JSONSequence(data.doc, "authURL"),
                       AccessToken |-> JSONString(data.doc, "accessToken"),
                       RefreshToken |-> JSONString(data.doc, "refreshToken"),
                       ExpiresAt |-> JSONNumber(data.doc, "expiresAt")],
          err |-> NilErr]

\* Session deserialization: the keys of the persisted object into the
\* fields of the same names.
UnmarshalSession(p, data) ==
    IF ~data.wellFormed
    THEN [session |-> Nil, err |-> <<"json decode error">>]
    ELSE [session |-> [AuthURL |-> JSONSequence(data.doc, "AuthURL"),
                       AccessToken |-> JSONString(data.doc, "AccessToken"),
                       RefreshToken |-> JSONString(data.doc, "RefreshToken"),
                       ExpiresAt |-> JSONNumber(data.doc, "ExpiresAt")],
          err |-> NilErr]

\* The host's code exchange populates the tokens of a session.
PopulateTokens(sess, token) ==
    [sess EXCEPT !.AccessToken = token.AccessToken,
                 !.RefreshToken = token.RefreshToken,
                 !.ExpiresAt = token.ExpiresAt]

ExchangedTokens ==
    { [AccessToken |-> "at1", RefreshToken |-> "rt1", ExpiresAt |-> 3] }

(***************************************************************************)
(* The state machine: one provider, used by one caller at a time.         *)
(*   p        the Provider                                                 *)
(*   args     the arguments New was called with                            *)
(*   sess     the Session the host holds (Nil before the first one)        *)
(*   fresh    sess is as BeginAuth returned it                             *)
(*   named    the last SetName, if any                                     *)
(*   nreq     the HTTP requests issued so far                              *)
(*   call     the last call: its operation, the state it was made in       *)
(*            (pre), its arguments and what it returned                    *)
(***************************************************************************)
VARIABLES p, args, sess, fresh, named, nreq, call
vars == <<p, args, sess, fresh, named, nreq, call>>

Pre == [p |-> p, sess |-> sess, nreq |-> nreq]

Init ==
    /\ args \in [clientKey : ClientKeys, secret : Secrets,
                 callbackURL : CallbackURLs, scopes : ScopeLists]
    /\ p = New(args.clientKey, args.secret, args.callbackURL, args.scopes)
    /\ sess = Nil
    /\ fresh = FALSE
    /\ named = [called |-> FALSE]
    /\ nreq = 0
    /\ call = [op |-> "New"]

CallName ==
    /\ call' = [op |-> "Name", pre |-> Pre, out |-> Name(p)]
    /\ UNCHANGED <<p, args, sess, fresh, named, nreq>>

CallSetName ==
    \E name \in ProviderNames :
        /\ p' = SetName(p, name)
        /\ named' = [called |-> TRUE, name |-> name]
        /\ call' = [op |-> "SetName", pre |-> Pre, name |-> name]
        /\ UNCHANGED <<args, sess, fresh, nreq>>

\* The embedding application assigns the exported HTTPClient field.
AssignHTTPClient ==
    \E c \in HTTPClients :
        /\ p' = [p EXCEPT !.HTTPClient = c]
        /\ call' = [op |-> "AssignHTTPClient", pre |-> Pre]
        /\ UNCHANGED <<args, sess, fresh, named, nreq>>

CallClient ==
    /\ call' = [op |-> "Client", pre |-> Pre, out |-> Client(p)]
    /\ UNCHANGED <<p, args, sess, fresh, named, nreq>>

CallBeginAuth ==
    \E state \in States :
        LET r == BeginAuth(p, state)
        IN  /\ sess' = r.session
            /\ fresh' = TRUE
            /\ call' = [op |-> "BeginAuth", pre |-> Pre, state |-> state,
                        session |-> r.session, err |-> r.err, reqs |-> r.reqs]
            /\ UNCHANGED <<p, args, named, nreq>>

CallPopulateTokens ==
    \E token \in ExchangedTokens :
        /\ sess # Nil
        /\ sess' = PopulateTokens(sess, token)
        /\ fresh' = FALSE
        /\ call' = [op |-> "PopulateTokens", pre |-> Pre]
        /\ UNCHANGED <<p, args, named, nreq>>

CallFetchUser ==
    \E outcome \in HTTPOutcomes :
        LET r == FetchUser(p, sess, outcome)
        IN  /\ sess # Nil
            /\ nreq + Len(r.reqs) <= MaxRequests
            /\ p' = r.p
            /\ sess' = r.sess
            /\ nreq' = nreq + Len(r.reqs)
            /\ call' = [op |-> "FetchUser", pre |-> Pre, fresh |-> fresh,
                        outcome |-> outcome, user |-> r.user, err |-> r.err,
                        reqs |-> r.reqs]
            /\ UNCHANGED <<args, fresh, named>>

CallRefreshTokenAvailable ==
    /\ call' = [op |-> "RefreshTokenAvailable", pre |-> Pre,
                out |-> RefreshTokenAvailable(p)]
    /\ UNCHANGED <<p, args, sess, fresh, named, nreq>>

CallRefreshToken ==
    \E refreshToken \in RefreshTokens, ok \in BOOLEAN :
        LET r == RefreshToken(p, refreshToken, ok)
        IN  /\ nreq + Len(r.reqs) <= MaxRequests
            /\ nreq' = nreq + Len(r.reqs)
            /\ call' = [op |-> "RefreshToken", pre |-> Pre,
                        refreshToken |-> refreshToken, token |-> r.token,
                        err |-> r.err, reqs |-> r.reqs]
            /\ UNCHANGED <<p, args, sess, fresh, named>>

CallUnmarshalSession ==
    \E data \in SessionTexts :
        LET r == UnmarshalSession(p, data)
        IN  /\ sess' = IF r.err = NilErr THEN r.session ELSE sess
            /\ fresh' = IF r.err = NilErr THEN FALSE ELSE fresh
            /\ call' = [op |-> "UnmarshalSession", pre |-> Pre, data |-> data,
                        session |-> r.session, err |-> r.err]
            /\ UNCHANGED <<p, args, named, nreq>>

Next ==
    \/ CallName
    \/ CallSetName
    \/ AssignHTTPClient
    \/ CallClient
    \/ CallBeginAuth
    \/ CallPopulateTokens
    \/ CallFetchUser
    \/ CallRefreshTokenAvailable
    \/ CallRefreshToken
    \/ CallUnmarshalSession

Spec == Init /\ [][Next]_vars

(***************************************************************************)
(* Properties                                                              *)
(***************************************************************************)
FetchUserCalled == call.op = "FetchUser"
\* The session FetchUser was called with.
Given == call.pre.sess

ProfileEmpty(user) ==
    /\ user.UserID = "" /\ user.NickName = "" /\ user.FirstName = ""
    /\ user.LastName = "" /\ user.Email = "" /\ user.Location = ""
    /\ user.AvatarURL = ""

TokensOfSession(user, s) ==
    /\ user.AccessToken = s.AccessToken
    /\ user.RefreshToken = s.RefreshToken
    /\ user.ExpiresAt = s.ExpiresAt

\* The request FetchUser is to send for session s on provider q.
ProfileRequest(q, s) ==
    [client |-> IF q.HTTPClient = "nil" THEN "http.DefaultClient"
                ELSE q.HTTPClient,
     req |-> [Method |-> "GET", URL |-> endpointUser,
              Authorization |-> <<"Bearer ", s.AccessToken>>]]

\* The outcome of the request is a failure of some kind.
Failing(outcome) ==
    \/ outcome.kind = "error"
    \/ /\ outcome.kind = "response"
       /\ \/ outcome.status # 200
          \/ ~outcome.readOK
          \/ ~outcome.body.wellFormed

\* C1: FetchUser on a session whose access token is empty returns a non-nil
\* error, issues no HTTP request, and leaves the session and the provider as
\* they were before the call.
C1_EmptyTokenFails ==
    (FetchUserCalled /\ Given.AccessToken = "") =>
        /\ call.err # NilErr
        /\ call.reqs = <<>>
        /\ nreq = call.pre.nreq
        /\ sess = call.pre.sess
        /\ p = call.pre.p

C1_Witness ==
    /\ FetchUserCalled
    /\ Given.AccessToken = ""
    /\ Given.RefreshToken # ""
    /\ call.err # NilErr

\* C2: with a non-empty access token, a response whose status is not 200
\* makes FetchUser return a non-nil error that carries the status code.
C2_StatusErrorCarriesCode ==
    (/\ FetchUserCalled
     /\ Given.AccessToken # ""
     /\ call.outcome.kind = "response"
     /\ call.outcome.status # 200) =>
        /\ call.err # NilErr
        /\ Contains(call.err, <<ToString(call.outcome.status)>>)

C2_Witness ==
    /\ FetchUserCalled
    /\ Given.AccessToken # ""
    /\ call.outcome.kind = "response"
    /\ call.outcome.status = 404
    /\ call.outcome.readOK
    /\ call.outcome.body.wellFormed
    /\ Contains(call.err, <<"404">>)

\* C3: with a non-empty access token, a 200 response with a well-formed
\* profile body makes FetchUser return no error and a user whose profile
\* fields are the body's (userId, userName, firstName, lastName, emailId,
\* countryCode, profileImages.sizeX120), whose tokens and expiry are the
\* session's and whose provider is the provider's name.
C3_ProfileMapped ==
    (/\ FetchUserCalled
     /\ Given.AccessToken # ""
     /\ call.outcome.kind = "response"
     /\ call.outcome.status = 200
     /\ call.outcome.readOK
     /\ call.outcome.body.wellFormed) =>
        LET doc == call.outcome.body.doc
            user == call.user
        IN  /\ call.err = NilErr
            /\ user.UserID = JSONString(doc, "userId")
            /\ user.NickName = JSONString(doc, "userName")
            /\ user.FirstName = JSONString(doc, "firstName")
            /\ user.LastName = JSONString(doc, "lastName")
            /\ user.Email = JSONString(doc, "emailId")
            /\ user.Location = JSONString(doc, "countryCode")
            /\ user.AvatarURL = IF "profileImages" \in DOMAIN doc
                                THEN JSONString(doc.profileImages, "sizeX120")
                                ELSE ""
            /\ TokensOfSession(user, Given)
            /\ user.Provider = call.pre.p.providerName

C3_Witness ==
    /\ FetchUserCalled
    /\ call.err = NilErr
    /\ call.user.UserID = "U1"
    /\ call.user.FirstName = "Ada"
    /\ call.user.LastName = "Lovelace"
    /\ call.user.AvatarURL = "https://img/120.png"
    /\ call.user.Provider = "forge2"
    /\ call.user.RefreshToken = "rt2"

\* C4: BeginAuth returns no error, issues no request, and returns a new
\* session in which only AuthURL is set, and AuthURL contains the
\* authorization base endpoint; FetchUser on that session, while it is as
\* BeginAuth returned it, fails.
C4_BeginAuthSession ==
    /\ call.op = "BeginAuth" =>
        /\ call.err = NilErr
        /\ call.reqs = <<>>
        /\ nreq = call.pre.nreq
        /\ sess = call.session
        /\ call.session.AccessToken = ""
        /\ call.session.RefreshToken = ""
        /\ call.session.ExpiresAt = 0
        /\ call.session.AuthURL # <<>>
        /\ Contains(call.session.AuthURL, <<baseAuthURL>>)
    /\ (FetchUserCalled /\ call.fresh) => call.err # NilErr

C4_Witness ==
    /\ FetchUserCalled
    /\ call.fresh
    /\ Contains(Given.AuthURL, <<"&state=", "test_state">>)
    /\ call.err # NilErr

\* C6: FetchUser on a session with a non-empty access token issues exactly
\* one request, a GET to the user-profile endpoint with the header
\* Authorization: Bearer <access token>, whatever the outcome, and every
\* failure comes back as an error.
C6_OneRequest ==
    (FetchUserCalled /\ Given.AccessToken # "") =>
        /\ call.reqs = <<ProfileRequest(call.pre.p, Given)>>
        /\ nreq = call.pre.nreq + 1
        /\ Failing(call.outcome) => call.err # NilErr

C6_Witness ==
    /\ FetchUserCalled
    /\ Given.AccessToken # ""
    /\ call.outcome.kind = "error"
    /\ call.err # NilErr
    /\ nreq = call.pre.nreq + 1
    /\ call.pre.nreq > 0

\* C7: the provider's ClientKey, Secret and CallbackURL are the arguments of
\* New, and its OAuth2 configuration is the one derived from them, after New
\* and after any sequence of operations.
C7_ConfigFixed ==
    /\ p.ClientKey = args.clientKey
    /\ p.Secret = args.secret
    /\ p.CallbackURL = args.callbackURL
    /\ p.config.ClientID = args.clientKey
    /\ p.config.ClientSecret = args.secret
    /\ p.config.RedirectURL = args.callbackURL
    /\ p.config.Endpoint.TokenURL = tokenURL
    /\ p.config.Endpoint.AuthURL =
           <<baseAuthURL, "?response_type=code&client_id=", args.clientKey,
             "&redirect_uri=", args.callbackURL, "&scope=data:read">>
    /\ p.config.Scopes = args.scopes

C7_Witness ==
    /\ call.op = "RefreshToken"
    /\ call.err = NilErr
    /\ p.providerName = "forge2"
    /\ sess # Nil
    /\ nreq = 2
    /\ args.scopes # <<>>

\* C8: UnmarshalSession on a well-formed text returns no error and a session
\* whose fields are the values under the keys of the same names (empty where
\* the key is absent); on a malformed text it returns an error.
C8_UnmarshalSession ==
    call.op = "UnmarshalSession" =>
        IF call.data.wellFormed
        THEN /\ call.err = NilErr
             /\ call.session.AuthURL =
                    (IF "AuthURL" \in DOMAIN call.data.doc
                     THEN call.data.doc.AuthURL ELSE <<>>)
             /\ call.session.AccessToken =
                    (IF "AccessToken" \in DOMAIN call.data.doc
                     THEN call.data.doc.AccessToken ELSE "")
             /\ call.session.RefreshToken =
                    (IF "RefreshToken" \in DOMAIN call.data.doc
                     THEN call.data.doc.RefreshToken ELSE "")
             /\ call.session.ExpiresAt =
                    (IF "ExpiresAt" \in DOMAIN call.data.doc
                     THEN call.data.doc.ExpiresAt ELSE 0)
        ELSE call.err # NilErr

C8_Witness ==
    /\ call.op = "UnmarshalSession"
    /\ call.err = NilErr
    /\ call.session.AuthURL = <<baseAuthURL>>
    /\ call.session.AccessToken = "1234567890"
    /\ call.session.RefreshToken = ""

\* C9: whenever FetchUser returns an error, the user returned with it has
\* every profile field empty, the session's tokens and expiry, and the
\* provider's name.
C9_ErrorUser ==
    (FetchUserCalled /\ call.err # NilErr) =>
        /\ ProfileEmpty(call.user)
        /\ TokensOfSession(call.user, Given)
        /\ call.user.Provider = call.pre.p.providerName

C9_Witness ==
    /\ FetchUserCalled
    /\ call.err = <<"json decode error">>
    /\ call.user.AccessToken = "at2"
    /\ call.user.RefreshToken = "rt2"
    /\ call.user.ExpiresAt = 7
    /\ ProfileEmpty(call.user)

\* C10: Name returns the argument of the last SetName, or "autodeskforge"
\* if there was none; FetchUser puts that name in the user's provider field
\* and in its error messages; SetName changes nothing else of the provider.
CurrentName == IF named.called THEN named.name ELSE "autodeskforge"

C10_NameFollowsSetName ==
    /\ call.op = "Name" => call.out = CurrentName
    /\ FetchUserCalled =>
        /\ call.user.Provider = CurrentName
        /\ Given.AccessToken = "" => call.err[1] = CurrentName
        /\ (/\ Given.AccessToken # ""
            /\ call.outcome.kind = "response"
            /\ call.outcome.status # 200) => call.err[1] = CurrentName
    /\ call.op = "SetName" =>
        /\ p.providerName = call.name
        /\ [p EXCEPT !.providerName = call.pre.p.providerName] = call.pre.p

C10_Witness ==
    /\ FetchUserCalled
    /\ named.called
    /\ named.name = "forge2"
    /\ call.user.Provider = "forge2"
    /\ call.err = <<"forge2", " responded with a ", "500",
                    " trying to fetch user information">>

(***************************************************************************)
(* Concurrent use: NumThreads goroutines call the operations of one shared *)
(* provider, with no synchronisation (the package has none).  A call runs  *)
(* statement by statement; pc names the statement a goroutine is at, by    *)
(* its operation and line.  Here call[t] is the frame of goroutine t.      *)
(***************************************************************************)
Threads == 1..NumThreads

Operations == {"Name", "SetName", "Client", "BeginAuth", "FetchUser",
               "RefreshTokenAvailable", "RefreshToken", "UnmarshalSession"}

AccessTokens == {"", "at1"}

Idle == [op |-> "none", pc |-> "idle"]

\* The first statement of each operation.
Entry(op) ==
    CASE op = "Name" -> "Name49"
      [] op = "SetName" -> "SetName54"
      [] op = "Client" -> "Client59"
      [] op = "BeginAuth" -> "BeginAuth68"
      [] op = "FetchUser" -> "FetchUser77"
      [] op = "RefreshTokenAvailable" -> "RefreshTokenAvailable163"
      [] op = "RefreshToken" -> "RefreshToken169"
      [] op = "UnmarshalSession" -> "UnmarshalSession"

\* The provider fields the statement at pc reads.
Reads(frame) ==
    CASE frame.pc \in {"Name49", "FetchUser77", "FetchUser84", "FetchUser105"}
             -> {"providerName"}
      [] frame.pc \in {"Client59", "FetchUser88"} -> {"HTTPClient"}
      [] frame.pc = "BeginAuth68" -> {"config"}
      [] frame.pc = "RefreshToken169" -> {"config", "HTTPClient"}
      [] OTHER -> {}

\* Client storing the fallback client in the provider when none is set.
AssignsLazyClient(prov, frame) ==
    IF frame.pc = "SetName54" THEN [providerName |-> frame.name]
    ELSE IF frame.pc \in {"Client59", "FetchUser88"} /\ prov.HTTPClient = "nil"
    THEN [HTTPClient |-> "http.DefaultClient"]
    ELSE <<>>

\* The provider fields the statement at pc assigns, with their new values.
Assigns(prov, frame) ==
    IF frame.pc = "SetName54" THEN [providerName |-> frame.name] ELSE <<>>

Writes(frame) == DOMAIN Assigns(p, frame)

\* Two statements about to run conflict when both touch a field and one of
\* them writes it.
Conflict(f1, f2) ==
    \/ Writes(f1) \cap (Reads(f2) \cup Writes(f2)) # {}
    \/ Writes(f2) \cap Reads(f1) # {}

\* Goroutine t runs its statement and goes on to frame next.
Exec(t, next) ==
    LET a == Assigns(p, call[t])
    IN  /\ p' = [f \in DOMAIN p |-> IF f \in DOMAIN a THEN a[f] ELSE p[f]]
        /\ call' = [call EXCEPT ![t] = next]
        /\ UNCHANGED <<args, sess, fresh, named, nreq>>

At(t, pc) == call[t].pc = pc

ConcInit ==
    /\ args \in [clientKey : ClientKeys, secret : Secrets,
                 callbackURL : CallbackURLs, scopes : ScopeLists]
    /\ \E c \in HTTPClients :
           p = [New(args.clientKey, args.secret, args.callbackURL, args.scopes)
                    EXCEPT !.HTTPClient = c]
    /\ sess = Nil
    /\ fresh = FALSE
    /\ named = [called |-> FALSE]
    /\ nreq = 0
    /\ call = [t \in Threads |-> Idle]

ConcCall(t) ==
    /\ At(t, "idle")
    /\ \E op \in Operations, name \in ProviderNames, token \in AccessTokens :
           call' = [call EXCEPT ![t] =
                       IF op = "SetName"
                       THEN [op |-> op, pc |-> Entry(op), name |-> name]
                       ELSE IF op = "FetchUser"
                       THEN [op |-> op, pc |-> Entry(op), token |-> token]
                       ELSE [op |-> op, pc |-> Entry(op)]]
    /\ UNCHANGED <<p, args, sess, fresh, named, nreq>>

ConcName(t) == At(t, "Name49") /\ Exec(t, Idle)

ConcSetName(t) == At(t, "SetName54") /\ Exec(t, Idle)

ConcClient(t) == At(t, "Client59") /\ Exec(t, Idle)

ConcBeginAuth(t) == At(t, "BeginAuth68") /\ Exec(t, Idle)

\* user := goth.User{..., Provider: p.Name(), ...}, then the token check.
ConcFetchUser77(t) ==
    /\ At(t, "FetchUser77")
    /\ Exec(t, [call[t] EXCEPT !.pc = IF call[t].token = "" THEN "FetchUser84"
                                      ELSE "FetchUser88"])

ConcFetchUser84(t) == At(t, "FetchUser84") /\ Exec(t, Idle)

ConcFetchUser88(t) ==
    At(t, "FetchUser88") /\ Exec(t, [call[t] EXCEPT !.pc = "FetchUser96"])

\* c.Do(req) and the status check.
ConcFetchUser96(t) ==
    /\ At(t, "FetchUser96")
    /\ \E outcome \in HTTPOutcomes :
           Exec(t, IF outcome.kind = "response" /\ StatusFailed(outcome)
                   THEN [call[t] EXCEPT !.pc = "FetchUser105"]
                   ELSE Idle)

ConcFetchUser105(t) == At(t, "FetchUser105") /\ Exec(t, Idle)

ConcRefreshTokenAvailable(t) ==
    At(t, "RefreshTokenAvailable163") /\ Exec(t, Idle)

ConcRefreshToken(t) == At(t, "RefreshToken169") /\ Exec(t, Idle)

ConcUnmarshalSession(t) == At(t, "UnmarshalSession") /\ Exec(t, Idle)

ConcNext ==
    \E t \in Threads :
        \/ ConcCall(t)
        \/ ConcName(t)
        \/ ConcSetName(t)
        \/ ConcClient(t)
        \/ ConcBeginAuth(t)
        \/ ConcFetchUser77(t)
        \/ ConcFetchUser84(t)
        \/ ConcFetchUser88(t)
        \/ ConcFetchUser96(t)
        \/ ConcFetchUser105(t)
        \/ ConcRefreshTokenAvailable(t)
        \/ ConcRefreshToken(t)
        \/ ConcUnmarshalSession(t)

SpecConc == ConcInit /\ [][ConcNext]_vars

\* C5 as stated: in every interleaving of concurrent calls to the operations
\* of one shared provider (SetName among them), no call is about to write a
\* provider field that another call is about to read or write.
C5_NoConflictingAccess ==
    \A t1, t2 \in Threads :
        t1 # t2 => ~Conflict(call[t1], call[t2])

\* C5, amended: no operation other than SetName writes a provider field, so
\* two concurrent calls conflict only when one of them is SetName (which
\* writes providerName).
C5_OnlySetNameConflicts ==
    /\ \A t \in Threads :
           Writes(call[t]) # {} =>
               call[t].op = "SetName" /\ Writes(call[t]) = {"providerName"}
    /\ \A t1, t2 \in Threads :
           (t1 # t2 /\ Conflict(call[t1], call[t2])) =>
               (call[t1].op = "SetName" \/ call[t2].op = "SetName")

\* Two calls that are not SetName are about to touch the same fields.
C5_Witness ==
    \E t1, t2 \in Threads :
        /\ t1 # t2
        /\ call[t1].pc = "FetchUser88"
        /\ call[t2].pc = "RefreshToken169"
        /\ Reads(call[t1]) \cap Reads(call[t2]) # {}
        /\ p.providerName = "forge2"

====
